---- MODULE Spec2Model ----
(***************************************************************************)
(* Calculator.py: a restricted arithmetic-expression evaluator.            *)
(*                                                                         *)
(*   safe_eval(expr)  = _eval(ast.parse(expr, mode="eval")), a SyntaxError *)
(*                      of the parse re-raised as ValueError               *)
(*   _eval(node)      = the recursive tree evaluator over _OPERATORS       *)
(*   main()           = the Tkinter keypad (insert / clear / backspace /   *)
(*                      evaluate) and the fall-back line shell             *)
(*                                                                         *)
(* Three specifications share the variables:                               *)
(*   SpecEval      a tree (node) is handed to _eval                        *)
(*   SpecSafeEval  a text is handed to safe_eval                           *)
(*   SpecMain      main(): the keypad front-end when Tk starts, the line   *)
(*                 shell when it does not                                  *)
(*                                                                         *)
(*   node    the tree handed to _eval                                      *)
(*   text    the text handed to safe_eval                                  *)
(*   result  the outcome of the call; in SpecMain the outcome of the call  *)
(*           of safe_eval the latest handler made, if it made one          *)
(*   entry   the text of the Entry widget                                  *)
(*   out     the lines printed so far                                      *)
(*   shell   "gui", "cli", or "exit" once the loop of the line shell ended *)
(***************************************************************************)
EXTENDS Integers, Sequences, FiniteSets, TLC

VARIABLES node, text, result, entry, out, shell

vars == <<node, text, result, entry, out, shell>>

(***************************************************************************)
(* Bounds of the model.                                                    *)
(***************************************************************************)
\* Magnitude up to which numerators and denominators are represented.
Cap == 1024
\* Integer literals of the trees handed to _eval range over -1 .. MaxLit.
MaxLit == 2

(***************************************************************************)
(* Python numbers.  A value is [t, n, d]: its type name and the rational   *)
(* n/d it denotes (d = 1 for int and bool).  A float is tracked exactly    *)
(* when it is a dyadic rational within Cap, which IEEE doubles represent   *)
(* and compute without rounding; any other float is the untracked float    *)
(* (d = 0): its type is known, its digits are not.                         *)
(***************************************************************************)
Val(t, n, d) == [t |-> t, n |-> n, d |-> d]
PyInt(n) == Val("int", n, 1)
PyBool(b) == Val("bool", IF b THEN 1 ELSE 0, 1)
PyFloat(n, d) == Val("float", n, d)
UntrackedFloat == Val("float", 0, 0)
PyComplex == Val("complex", 0, 0)
PyStr == Val("str", 0, 0)
PyNone == Val("NoneType", 0, 0)
PyEllipsis == Val("ellipsis", 0, 0)
NoValue == Val("-", 0, 0)

\* Outcomes of a call: a returned value, a raised exception (its class and
\* the parts of its message), or a value the number representation above
\* does not cover.  tr is the history of the call: the nodes entered and the
\* functions applied, in order.
Ok(v) == [k |-> "ok", v |-> v, exc |-> "", msg |-> <<>>, tr |-> <<>>]
Raise(exc, msg) == [k |-> "raise", v |-> NoValue, exc |-> exc, msg |-> msg, tr |-> <<>>]
Unmodelled == [k |-> "unmodelled", v |-> NoValue, exc |-> "", msg |-> <<>>, tr |-> <<>>]
NoResult == [k |-> "none", v |-> NoValue, exc |-> "", msg |-> <<>>, tr |-> <<>>]

Abs(x) == IF x < 0 THEN -x ELSE x

RECURSIVE GCD(_, _)
GCD(a, b) == IF b = 0 THEN a ELSE GCD(b, a % b)

\* n/d in lowest terms with a positive denominator (d # 0).
Rat(n, d) ==
    LET s == IF d < 0 THEN -1 ELSE 1
        g == GCD(Abs(n), Abs(d))
    IN  [n |-> (s * n) \div g, d |-> (s * d) \div g]

RECURSIVE IsPow2(_)
IsPow2(d) == d = 1 \/ (d > 1 /\ d % 2 = 0 /\ IsPow2(d \div 2))

InRange(q) == Abs(q.n) <= Cap /\ q.d <= Cap

\* Floor of x/y (y # 0), Python's rounding toward minus infinity.
FloorQuot(x, y) == IF y > 0 THEN x \div y ELSE (-x) \div (-y)

\* b^e for e >= 0; a magnitude above Cap stands for every larger one.
RECURSIVE IPow(_, _)
IPow(b, e) ==
    IF e = 0 THEN 1
    ELSE LET h == IPow(b, e \div 2) IN
         IF Abs(h) > Cap THEN Cap + 1
         ELSE LET s == h * h IN
              IF s > Cap THEN Cap + 1
              ELSE IF e % 2 = 0 THEN s
              ELSE IF Abs(s * b) > Cap THEN Cap + 1 ELSE s * b

IsIntLike(v) == v.t \in {"int", "bool"}
Tracked(v) == IsIntLike(v) \/ (v.t = "float" /\ v.d # 0)
\* int op int stays int; a float operand makes the result a float.
Promote(a, b) == IF IsIntLike(a) /\ IsIntLike(b) THEN "int" ELSE "float"

\* The number of type t and value q as the outcome of an operation.
Number(t, q) ==
    IF ~InRange(q) THEN Unmodelled
    ELSE IF t = "float" /\ ~IsPow2(q.d) THEN Ok(UntrackedFloat)
    ELSE Ok(Val(t, q.n, q.d))

(***************************************************************************)
(* The functions of the operator module that _OPERATORS refers to.         *)
(***************************************************************************)
op_add(a, b) ==
    IF ~(Tracked(a) /\ Tracked(b)) THEN Unmodelled
    ELSE Number(Promote(a, b), Rat(a.n * b.d + b.n * a.d, a.d * b.d))

op_sub(a, b) ==
    IF ~(Tracked(a) /\ Tracked(b)) THEN Unmodelled
    ELSE Number(Promote(a, b), Rat(a.n * b.d - b.n * a.d, a.d * b.d))

op_mul(a, b) ==
    IF ~(Tracked(a) /\ Tracked(b)) THEN Unmodelled
    ELSE Number(Promote(a, b), Rat(a.n * b.n, a.d * b.d))

op_truediv(a, b) ==
    IF ~(Tracked(a) /\ Tracked(b)) THEN Unmodelled
    ELSE IF b.n = 0 THEN Raise("ZeroDivisionError", <<"division by zero">>)
    ELSE Number("float", Rat(a.n * b.d, a.d * b.n))

op_floordiv(a, b) ==
    IF ~(Tracked(a) /\ Tracked(b)) THEN Unmodelled
    ELSE IF b.n = 0
         THEN Raise("ZeroDivisionError", <<"integer division or modulo by zero">>)
    ELSE Number(Promote(a, b), [n |-> FloorQuot(a.n * b.d, a.d * b.n), d |-> 1])

op_mod(a, b) ==
    IF ~(Tracked(a) /\ Tracked(b)) THEN Unmodelled
    ELSE IF b.n = 0 THEN Raise("ZeroDivisionError", <<"integer modulo by zero">>)
    ELSE LET q == FloorQuot(a.n * b.d, a.d * b.n) IN
         IF Abs(q) > Cap THEN Unmodelled
         ELSE Number(Promote(a, b),
                     Rat(a.n * b.d - b.n * q * a.d, a.d * b.d))

\* op_pow as a slip would have it: integer operands always give an integer
\* (the reciprocal floored).
op_pow_IntOnly(a, b) ==
    IF IsIntLike(a) /\ IsIntLike(b) /\ b.n < 0 /\ a.n # 0
    THEN LET den == IPow(a.n, -b.n) IN
         IF Abs(den) > Cap THEN Unmodelled
         ELSE Number("int", [n |-> FloorQuot(1, den), d |-> 1])
    ELSE IF IsIntLike(a) /\ IsIntLike(b) /\ b.n >= 0
         THEN Number("int", [n |-> IPow(a.n, b.n), d |-> 1])
    ELSE Unmodelled

op_pow(a, b) ==
    IF ~(Tracked(a) /\ Tracked(b)) THEN Unmodelled
    ELSE IF IsIntLike(a) /\ IsIntLike(b) /\ b.n >= 0
         THEN Number("int", [n |-> IPow(a.n, b.n), d |-> 1])
    ELSE IF b.d = 1 /\ b.n >= 0
         THEN Number("float", [n |-> IPow(a.n, b.n), d |-> IPow(a.d, b.n)])
    ELSE IF b.d = 1
         THEN IF a.n = 0
              THEN Raise("ZeroDivisionError",
                         <<"0.0 cannot be raised to a negative power">>)
              ELSE LET num == IPow(a.d, -b.n)
                       den == IPow(a.n, -b.n)
                   IN  IF Abs(num) > Cap \/ Abs(den) > Cap THEN Unmodelled
                       ELSE Number("float", Rat(num, den))
    ELSE IF a.n > 0 THEN Ok(UntrackedFloat)
    ELSE IF a.n < 0 THEN Ok(PyComplex)
    ELSE IF b.n > 0 THEN Ok(PyFloat(0, 1))
    ELSE Raise("ZeroDivisionError", <<"0.0 cannot be raised to a negative power">>)

op_pos(a) ==
    IF ~Tracked(a) THEN Unmodelled
    ELSE Ok(Val(IF IsIntLike(a) THEN "int" ELSE "float", a.n, a.d))

op_neg(a) ==
    IF ~Tracked(a) THEN Unmodelled
    ELSE Ok(Val(IF IsIntLike(a) THEN "int" ELSE "float", -a.n, a.d))

\* op.<name> applied to two values / to one value.
Call2(func, a, b) ==
    CASE func = "op.add" -> op_add(a, b)
      [] func = "op.sub" -> op_sub(a, b)
      [] func = "op.mul" -> op_mul(a, b)
      [] func = "op.truediv" -> op_truediv(a, b)
      [] func = "op.floordiv" -> op_floordiv(a, b)
      [] func = "op.mod" -> op_mod(a, b)
      [] func = "op.pow" -> op_pow(a, b)
      [] OTHER -> Raise("TypeError", <<"takes 1 positional argument">>)

Call1(func, a) ==
    CASE func = "op.pos" -> op_pos(a)
      [] func = "op.neg" -> op_neg(a)
      [] OTHER -> Raise("TypeError", <<"missing 1 required positional argument">>)

(***************************************************************************)
(* _OPERATORS: the table of supported operators, keyed by the ast operator *)
(* class.                                                                  *)
(***************************************************************************)
_OPERATORS ==
    [Add |-> "op.add", Sub |-> "op.sub", Mult |-> "op.mul",
     Div |-> "op.truediv", FloorDiv |-> "op.floordiv", Mod |-> "op.mod",
     Pow |-> "op.pow", UAdd |-> "op.pos", USub |-> "op.neg"]

(***************************************************************************)
(* ast nodes.                                                              *)
(***************************************************************************)
Expression(body) == [kind |-> "Expression", body |-> body]
Constant(value) == [kind |-> "Constant", value |-> value]
BinOp(left, op, right) == [kind |-> "BinOp", left |-> left, op |-> op, right |-> right]
UnaryOp(op, operand) == [kind |-> "UnaryOp", op |-> op, operand |-> operand]
Name(id) == [kind |-> "Name", id |-> id]
Call(func, args) == [kind |-> "Call", func |-> func, args |-> args]
Compare(left, comparators) == [kind |-> "Compare", left |-> left, comparators |-> comparators]
BoolOp(op, values) == [kind |-> "BoolOp", op |-> op, values |-> values]
Attribute(value, attr) == [kind |-> "Attribute", value |-> value, attr |-> attr]
Tuple(elts) == [kind |-> "Tuple", elts |-> elts]
Starred(value) == [kind |-> "Starred", value |-> value]
Keyword(arg, value) == [kind |-> "keyword", arg |-> arg, value |-> value]

\* isinstance(node.value, (int, float)): bool is a subclass of int.
IsIntOrFloat(v) == v.t \in {"int", "float", "bool"}

\* An outcome with the events ev put in front of its history.
After(ev, r) == [r EXCEPT !.tr = ev \o r.tr]

\* The events of the history: a node entered, a function applied.
Enter(n) == <<"eval", n.kind>>
Apply2(func, a, b) == <<"apply", func, a, b>>
Apply1(func, a) == <<"apply", func, a>>

(***************************************************************************)
(* _eval(node), branch by branch.  The operands are passed as the outcomes *)
(* of their own evaluation; an operand that did not return ends the        *)
(* evaluation of the node with its outcome, as a raised exception does.    *)
(***************************************************************************)
\* An ast.Constant node.
EvalConstant(n) ==
    IF IsIntOrFloat(n.value)
    THEN After(<<Enter(n)>>, Ok(n.value))
    ELSE After(<<Enter(n)>>, Raise("ValueError", <<"Only numeric constants are allowed">>))

\* EvalBinOp as a slip would have it: the right operand before the left.
EvalBinOp_RightFirst(n, left, right) ==
    IF right.k # "ok" THEN After(<<Enter(n)>>, right)
    ELSE IF left.k # "ok" THEN After(<<Enter(n)>> \o right.tr, left)
    ELSE IF n.op \in DOMAIN _OPERATORS
         THEN LET func == _OPERATORS[n.op] IN
              After(<<Enter(n)>> \o right.tr \o left.tr
                        \o <<Apply2(func, left.v, right.v)>>,
                    Call2(func, left.v, right.v))
         ELSE After(<<Enter(n)>> \o right.tr \o left.tr,
                    Raise("ValueError", <<"Unsupported binary operator: ", n.op>>))

\* An ast.BinOp node: left, then right, then the lookup of the operator.
EvalBinOp(n, left, right) ==
    IF left.k # "ok" THEN After(<<Enter(n)>>, left)
    ELSE IF right.k # "ok" THEN After(<<Enter(n)>> \o left.tr, right)
    ELSE IF n.op \in DOMAIN _OPERATORS
         THEN LET func == _OPERATORS[n.op] IN
              After(<<Enter(n)>> \o left.tr \o right.tr
                        \o <<Apply2(func, left.v, right.v)>>,
                    Call2(func, left.v, right.v))
         ELSE After(<<Enter(n)>> \o left.tr \o right.tr,
                    Raise("ValueError", <<"Unsupported binary operator: ", n.op>>))

\* An ast.UnaryOp node: the operand, then the lookup of the operator.
EvalUnaryOp(n, operand) ==
    IF operand.k # "ok" THEN After(<<Enter(n)>>, operand)
    ELSE IF n.op \in DOMAIN _OPERATORS
         THEN LET func == _OPERATORS[n.op] IN
              After(<<Enter(n)>> \o operand.tr \o <<Apply1(func, operand.v)>>,
                    Call1(func, operand.v))
         ELSE After(<<Enter(n)>> \o operand.tr,
                    Raise("ValueError", <<"Unsupported unary operator: ", n.op>>))

\* EvalOther as a slip would have it: an unknown node counts as zero.
EvalOther_Lenient(n) ==
    IF n.kind = "Call"
    THEN After(<<Enter(n)>>, Raise("ValueError", <<"Function calls are not allowed">>))
    ELSE After(<<Enter(n)>>, Ok(PyInt(0)))

\* Any other node: a call, or a node kind _eval does not know.
EvalOther(n) ==
    IF n.kind = "Call"
    THEN After(<<Enter(n)>>, Raise("ValueError", <<"Function calls are not allowed">>))
    ELSE After(<<Enter(n)>>, Raise("ValueError", <<"Unsupported expression: ", n.kind>>))

(***************************************************************************)
(* _eval(node).  ast.Num is, from Python 3.8 on, an alias whose instances  *)
(* are the ast.Constant nodes the branch before it has already returned    *)
(* or rejected, so that branch takes no node.                              *)
(***************************************************************************)
RECURSIVE _eval(_)
_eval(n) ==
    IF n.kind = "Expression" THEN After(<<Enter(n)>>, _eval(n.body))
    ELSE IF n.kind = "Constant" THEN EvalConstant(n)
    ELSE IF n.kind = "BinOp" THEN EvalBinOp(n, _eval(n.left), _eval(n.right))
    ELSE IF n.kind = "UnaryOp" THEN EvalUnaryOp(n, _eval(n.operand))
    ELSE EvalOther(n)

(***************************************************************************)
(* ast.parse(expr, mode="eval"): the text of an expression to its tree, or *)
(* a SyntaxError.  A text is a sequence of characters.  The tokenizer and  *)
(* the grammar are CPython's, cut to the characters named below; a text    *)
(* whose reading rests on a rule left out (an exponent, a radix prefix, a  *)
(* keyword other than True False None not and or, a number beyond the      *)
(* represented range) is unmodelled.                                       *)
(***************************************************************************)
Digits == {"0", "1", "2", "3", "4", "5", "6", "7", "8", "9"}

DigitValue ==
    ("0" :> 0) @@ ("1" :> 1) @@ ("2" :> 2) @@ ("3" :> 3) @@ ("4" :> 4)
        @@ ("5" :> 5) @@ ("6" :> 6) @@ ("7" :> 7) @@ ("8" :> 8) @@ ("9" :> 9)

LowerLetters ==
    {"a", "b", "c", "d", "e", "f", "g", "h", "i", "j", "k", "l", "m",
     "n", "o", "p", "q", "r", "s", "t", "u", "v", "w", "x", "y", "z"}

UpperLetters ==
    {"A", "B", "C", "D", "E", "F", "G", "H", "I", "J", "K", "L", "M",
     "N", "O", "P", "Q", "R", "S", "T", "U", "V", "W", "X", "Y", "Z"}

Letters == LowerLetters \cup UpperLetters \cup {"_"}

\* The operator and delimiter tokens over the characters of the model, the
\* longest first.
Operators3 == {<<"*", "*", "=">>, <<"/", "/", "=">>, <<".", ".", ".">>}
Operators2 ==
    {<<"*", "*">>, <<"/", "/">>, <<"=", "=">>, <<"+", "=">>, <<"-", "=">>,
     <<"*", "=">>, <<"/", "=">>, <<"%", "=">>, <<"^", "=">>}
Operators1 == {"+", "-", "*", "/", "%", "^", "(", ")", "=", "."}

\* Keywords the grammar below reads, and the other keywords of the language.
ReadKeywords ==
    {<<"T", "r", "u", "e">>, <<"F", "a", "l", "s", "e">>, <<"N", "o", "n", "e">>,
     <<"n", "o", "t">>, <<"a", "n", "d">>, <<"o", "r">>}
OtherKeywords ==
    {<<"a", "s">>, <<"a", "s", "s", "e", "r", "t">>,
     <<"a", "s", "y", "n", "c">>, <<"a", "w", "a", "i", "t">>,
     <<"b", "r", "e", "a", "k">>, <<"c", "l", "a", "s", "s">>,
     <<"c", "o", "n", "t", "i", "n", "u", "e">>, <<"d", "e", "f">>,
     <<"d", "e", "l">>, <<"e", "l", "i", "f">>, <<"e", "l", "s", "e">>,
     <<"e", "x", "c", "e", "p", "t">>,
     <<"f", "i", "n", "a", "l", "l", "y">>, <<"f", "o", "r">>,
     <<"f", "r", "o", "m">>, <<"g", "l", "o", "b", "a", "l">>,
     <<"i", "f">>, <<"i", "m", "p", "o", "r", "t">>, <<"i", "n">>,
     <<"i", "s">>, <<"l", "a", "m", "b", "d", "a">>,
     <<"n", "o", "n", "l", "o", "c", "a", "l">>, <<"p", "a", "s", "s">>,
     <<"r", "a", "i", "s", "e">>, <<"r", "e", "t", "u", "r", "n">>,
     <<"t", "r", "y">>, <<"w", "h", "i", "l", "e">>,
     <<"w", "i", "t", "h">>, <<"y", "i", "e", "l", "d">>}

\* Letters that, right after the digits of a number, continue the literal or
\* start a keyword the tokenizer still accepts there (1e5, 0x1f, 1_0, 1or 2).
NumberSuffixLetters ==
    {"e", "E", "_", "x", "X", "o", "O", "b", "B", "a", "f", "i", "n"}

\* Letters of the string prefixes (r'..', b'..', f'..', u'..').
StringPrefixLetters == {"r", "R", "b", "B", "f", "F", "u", "U"}

Token(type, str, val) == [type |-> type, str |-> str, val |-> val]
EndMarker == Token("ENDMARKER", <<>>, NoValue)

LexOk(toks) == [k |-> "ok", toks |-> toks]
LexError == [k |-> "err", toks |-> <<>>]
LexUnmodelled == [k |-> "unmodelled", toks |-> <<>>]

\* tok in front of the tokens that follow it.
Cons(tok, rest) == IF rest.k = "ok" THEN LexOk(<<tok>> \o rest.toks) ELSE rest

\* The first position from i on whose character is not in class.
RECURSIVE EndOfRun(_, _, _)
EndOfRun(s, i, class) ==
    IF i <= Len(s) /\ s[i] \in class THEN EndOfRun(s, i + 1, class) ELSE i

\* The first position from i on that holds a quote, or Len(s) + 1.
RECURSIVE NextQuote(_, _)
NextQuote(s, i) == IF i <= Len(s) /\ s[i] # "'" THEN NextQuote(s, i + 1) ELSE i

\* The number a run of digits denotes (at most six digits are read).
RECURSIVE DecimalValue(_)
DecimalValue(ds) ==
    IF ds = <<>> THEN 0
    ELSE 10 * DecimalValue(SubSeq(ds, 1, Len(ds) - 1)) + DigitValue[ds[Len(ds)]]

RECURSIVE Pow10(_)
Pow10(k) == IF k = 0 THEN 1 ELSE 10 * Pow10(k - 1)

\* The value of the literal with integer digits ds, and fraction digits fs
\* when it has a point.
LiteralValue(ds, point, fs) ==
    IF Len(ds) + Len(fs) > 6 THEN NoValue
    ELSE LET q == Rat(DecimalValue(ds \o fs), Pow10(Len(fs))) IN
         IF ~InRange(q) THEN NoValue
         ELSE IF ~point THEN PyInt(q.n)
         ELSE IF IsPow2(q.d) THEN PyFloat(q.n, q.d)
         ELSE UntrackedFloat

RECURSIVE Tokens(_, _)

\* The number that starts at i: digits, an optional point and digits, an
\* optional j.
NumberToken(s, i) ==
    LET j == EndOfRun(s, i, Digits)
        point == j <= Len(s) /\ s[j] = "."
        k == IF point THEN EndOfRun(s, j + 1, Digits) ELSE j
        ds == SubSeq(s, i, j - 1)
        fs == IF point THEN SubSeq(s, j + 1, k - 1) ELSE <<>>
        imaginary == k <= Len(s) /\ s[k] \in {"j", "J"}
        e == IF imaginary THEN k + 1 ELSE k
        value == LiteralValue(ds, point, fs)
    IN  IF e <= Len(s) /\ s[e] \in NumberSuffixLetters THEN LexUnmodelled
        ELSE IF e <= Len(s) /\ s[e] \in Letters \cup (IF imaginary THEN Digits ELSE {})
             THEN LexError
        ELSE IF ~point /\ ~imaginary /\ Len(ds) > 1 /\ ds[1] = "0"
                 /\ \E x \in 1 .. Len(ds) : ds[x] # "0"
             THEN LexError
        ELSE IF value = NoValue THEN LexUnmodelled
        ELSE Cons(Token("NUMBER", SubSeq(s, i, e - 1),
                        IF imaginary THEN PyComplex ELSE value),
                  Tokens(s, e))

\* The identifier or keyword that starts at i.
NameToken(s, i) ==
    LET e == EndOfRun(s, i, Letters \cup Digits)
        str == SubSeq(s, i, e - 1)
    IN  IF str \in OtherKeywords THEN LexUnmodelled
        ELSE IF e <= Len(s) /\ s[e] = "'"
                 /\ \A x \in 1 .. Len(str) : str[x] \in StringPrefixLetters
             THEN LexUnmodelled
        ELSE Cons(Token(IF str \in ReadKeywords THEN "KEYWORD" ELSE "NAME", str, NoValue),
                  Tokens(s, e))

\* The string literal whose opening quote is at i.
StringToken(s, i) ==
    LET e == NextQuote(s, i + 1) IN
    IF e > Len(s) THEN LexError
    ELSE Cons(Token("STRING", SubSeq(s, i, e), PyStr), Tokens(s, e + 1))

\* The operator that starts at i, the longest that matches.
OperatorToken(s, i) ==
    LET n == IF i + 2 <= Len(s) /\ SubSeq(s, i, i + 2) \in Operators3 THEN 3
             ELSE IF i + 1 <= Len(s) /\ SubSeq(s, i, i + 1) \in Operators2 THEN 2
             ELSE 1
    IN  Cons(Token("OP", SubSeq(s, i, i + n - 1), NoValue), Tokens(s, i + n))

\* The tokens of s from position i on.
Tokens(s, i) ==
    IF i > Len(s) THEN LexOk(<<>>)
    ELSE IF s[i] = " " THEN Tokens(s, i + 1)
    ELSE IF s[i] \in Digits \/ (s[i] = "." /\ i < Len(s) /\ s[i + 1] \in Digits)
         THEN NumberToken(s, i)
    ELSE IF s[i] \in Letters THEN NameToken(s, i)
    ELSE IF s[i] = "'" THEN StringToken(s, i)
    ELSE IF s[i] \in Operators1 THEN OperatorToken(s, i)
    ELSE LexUnmodelled

\* The tokens of the text s.  A first line that starts with a blank is an
\* IndentationError (unexpected indent), a SyntaxError.
Tokenize(s) == IF s # <<>> /\ s[1] = " " THEN LexError ELSE Tokens(s, 1)

(***************************************************************************)
(* The grammar of expressions, by recursive descent over the tokens ts     *)
(* from position i.  A rule returns the tree it read and the position      *)
(* after it, or fails.                                                     *)
(*                                                                         *)
(*   disjunction := conjunction ('or' conjunction)*                        *)
(*   conjunction := inversion ('and' inversion)*                           *)
(*   inversion   := 'not' inversion | comparison                           *)
(*   comparison  := bitwise_xor ('==' bitwise_xor)*                        *)
(*   bitwise_xor := sum ('^' sum)*                                         *)
(*   sum         := term (('+' | '-') term)*                               *)
(*   term        := factor (('*' | '/' | '//' | '%') factor)*              *)
(*   factor      := ('+' | '-') factor | power                             *)
(*   power       := primary ['**' factor]                                  *)
(*   primary     := atom ('.' NAME | '(' [argument] ')')*                  *)
(*   argument    := NAME '=' disjunction | '*' disjunction                 *)
(*                | '**' disjunction | disjunction                         *)
(*   atom        := NUMBER | STRING+ | NAME | True | False | None | '...'  *)
(*                | '(' ')' | '(' disjunction ')'                          *)
(***************************************************************************)
NoNode == Name(<<>>)
Parsed(tree, i) == [k |-> "ok", tree |-> tree, i |-> i]
ParseError == [k |-> "err", tree |-> NoNode, i |-> 0]

TokenAt(ts, i) == IF i <= Len(ts) THEN ts[i] ELSE EndMarker
IsOp(ts, i, str) == TokenAt(ts, i).type = "OP" /\ TokenAt(ts, i).str = str
IsKeyword(ts, i, str) == TokenAt(ts, i).type = "KEYWORD" /\ TokenAt(ts, i).str = str

\* The ast operator class of an operator token.
TermOps == (<<"*">> :> "Mult") @@ (<<"/">> :> "Div") @@ (<<"/", "/">> :> "FloorDiv")
               @@ (<<"%">> :> "Mod")
SumOps == (<<"+">> :> "Add") @@ (<<"-">> :> "Sub")
SignOps == (<<"+">> :> "UAdd") @@ (<<"-">> :> "USub")
IsOpIn(ts, i, table) == TokenAt(ts, i).type = "OP" /\ TokenAt(ts, i).str \in DOMAIN table

RECURSIVE ParseDisjunction(_, _)
RECURSIVE ParseFactor(_, _)

\* The nodes a rule builds from the trees its parts read, r the reading of
\* the part read last.
Unary(op, r) ==
    IF r.k = "ok" THEN Parsed(UnaryOp(op, r.tree), r.i) ELSE ParseError
Binary(left, op, r) ==
    IF r.k = "ok" THEN Parsed(BinOp(left, op, r.tree), r.i) ELSE ParseError
StarredArgument(r) ==
    IF r.k = "ok" THEN Parsed(Starred(r.tree), r.i) ELSE ParseError
KeywordArgument(name, r) ==
    IF r.k = "ok" THEN Parsed(Keyword(name, r.tree), r.i) ELSE ParseError
\* The closing parenthesis after the reading r.
Closed(ts, r) ==
    IF r.k = "ok" /\ IsOp(ts, r.i, <<")">>) THEN Parsed(r.tree, r.i + 1) ELSE ParseError

\* The end of the run of STRING tokens that starts at i.
RECURSIVE EndOfStrings(_, _)
EndOfStrings(ts, i) ==
    IF TokenAt(ts, i).type = "STRING" THEN EndOfStrings(ts, i + 1) ELSE i

ParseAtom(ts, i) ==
    IF TokenAt(ts, i).type = "NUMBER" THEN Parsed(Constant(TokenAt(ts, i).val), i + 1)
    ELSE IF TokenAt(ts, i).type = "STRING" THEN Parsed(Constant(PyStr), EndOfStrings(ts, i))
    ELSE IF TokenAt(ts, i).type = "NAME" THEN Parsed(Name(TokenAt(ts, i).str), i + 1)
    ELSE IF IsKeyword(ts, i, <<"T", "r", "u", "e">>) THEN Parsed(Constant(PyBool(TRUE)), i + 1)
    ELSE IF IsKeyword(ts, i, <<"F", "a", "l", "s", "e">>)
         THEN Parsed(Constant(PyBool(FALSE)), i + 1)
    ELSE IF IsKeyword(ts, i, <<"N", "o", "n", "e">>) THEN Parsed(Constant(PyNone), i + 1)
    ELSE IF IsOp(ts, i, <<".", ".", ".">>) THEN Parsed(Constant(PyEllipsis), i + 1)
    ELSE IF IsOp(ts, i, <<"(">>)
         THEN IF IsOp(ts, i + 1, <<")">>) THEN Parsed(Tuple(<<>>), i + 2)
              ELSE Closed(ts, ParseDisjunction(ts, i + 1))
    ELSE ParseError

\* The argument of a call, from the token after the opening parenthesis.
ParseArgument(ts, i) ==
    IF TokenAt(ts, i).type = "NAME" /\ IsOp(ts, i + 1, <<"=">>)
    THEN KeywordArgument(TokenAt(ts, i).str, ParseDisjunction(ts, i + 2))
    ELSE IF IsOp(ts, i, <<"*">>) THEN StarredArgument(ParseDisjunction(ts, i + 1))
    ELSE IF IsOp(ts, i, <<"*", "*">>) THEN KeywordArgument(<<>>, ParseDisjunction(ts, i + 1))
    ELSE ParseDisjunction(ts, i)

\* The trailers of a primary after the reading left: attribute references
\* and calls; arg is the reading of the argument of a call, or NoArgument.
NoArgument == [k |-> "none", tree |-> NoNode, i |-> 0]
RECURSIVE ParseTrailers(_, _, _)
ParseTrailers(ts, left, arg) ==
    IF left.k # "ok" THEN ParseError
    ELSE IF arg.k = "err" THEN ParseError
    ELSE IF arg.k = "ok"
    THEN IF IsOp(ts, arg.i, <<")">>)
         THEN ParseTrailers(ts, Parsed(Call(left.tree, <<arg.tree>>), arg.i + 1), NoArgument)
         ELSE ParseError
    ELSE IF IsOp(ts, left.i, <<".">>)
    THEN IF TokenAt(ts, left.i + 1).type = "NAME"
         THEN ParseTrailers(ts, Parsed(Attribute(left.tree, TokenAt(ts, left.i + 1).str),
                                       left.i + 2), NoArgument)
         ELSE ParseError
    ELSE IF IsOp(ts, left.i, <<"(">>)
    THEN IF IsOp(ts, left.i + 1, <<")">>)
         THEN ParseTrailers(ts, Parsed(Call(left.tree, <<>>), left.i + 2), NoArgument)
         ELSE ParseTrailers(ts, left, ParseArgument(ts, left.i + 1))
    ELSE left

ParsePrimary(ts, i) == ParseTrailers(ts, ParseAtom(ts, i), NoArgument)

\* power := primary ['**' factor]: the exponent takes its own sign and the
\* powers to its right.
PowerOf(ts, base) ==
    IF base.k = "ok" /\ IsOp(ts, base.i, <<"*", "*">>)
    THEN Binary(base.tree, "Pow", ParseFactor(ts, base.i + 1))
    ELSE base

ParsePower(ts, i) == PowerOf(ts, ParsePrimary(ts, i))

\* ParseFactor as a grammar with the sign inside the power would have it:
\* the sign binds to the base, so that -a**b reads as (-a)**b.
ParseFactor_SignOnBase(ts, i) ==
    IF IsOpIn(ts, i, SignOps) /\ ~IsOpIn(ts, i + 1, SignOps)
    THEN PowerOf(ts, Unary(SignOps[TokenAt(ts, i).str], ParsePrimary(ts, i + 1)))
    ELSE IF IsOpIn(ts, i, SignOps)
    THEN Unary(SignOps[TokenAt(ts, i).str], ParseFactor(ts, i + 1))
    ELSE ParsePower(ts, i)

\* factor := ('+' | '-') factor | power: a sign applies to the whole power.
ParseFactor(ts, i) ==
    IF IsOpIn(ts, i, SignOps)
    THEN Unary(SignOps[TokenAt(ts, i).str], ParseFactor(ts, i + 1))
    ELSE ParsePower(ts, i)

\* The rest of a chain of one precedence level after the reading l of its
\* operands so far: the operators of a level associate to the left.
RECURSIVE ParseTermRest(_, _)
ParseTermRest(ts, l) ==
    IF l.k = "ok" /\ IsOpIn(ts, l.i, TermOps)
    THEN ParseTermRest(ts, Binary(l.tree, TermOps[TokenAt(ts, l.i).str],
                                  ParseFactor(ts, l.i + 1)))
    ELSE l

ParseTerm(ts, i) == ParseTermRest(ts, ParseFactor(ts, i))

RECURSIVE ParseSumRest(_, _)
ParseSumRest(ts, l) ==
    IF l.k = "ok" /\ IsOpIn(ts, l.i, SumOps)
    THEN ParseSumRest(ts, Binary(l.tree, SumOps[TokenAt(ts, l.i).str],
                                 ParseTerm(ts, l.i + 1)))
    ELSE l

ParseSum(ts, i) == ParseSumRest(ts, ParseTerm(ts, i))

RECURSIVE ParseXorRest(_, _)
ParseXorRest(ts, l) ==
    IF l.k = "ok" /\ IsOp(ts, l.i, <<"^">>)
    THEN ParseXorRest(ts, Binary(l.tree, "BitXor", ParseSum(ts, l.i + 1)))
    ELSE l

ParseXor(ts, i) == ParseXorRest(ts, ParseSum(ts, i))

\* The operands of a comparison chain, as one Compare node; r is the
\* reading of the operand read last, values the trees of those before it.
RECURSIVE ParseComparators(_, _, _)
ParseComparators(ts, values, r) ==
    IF r.k # "ok" THEN ParseError
    ELSE IF IsOp(ts, r.i, <<"=", "=">>)
    THEN ParseComparators(ts, Append(values, r.tree), ParseXor(ts, r.i + 1))
    ELSE IF values = <<>> THEN r
    ELSE Parsed(Compare(values[1], Tail(values) \o <<r.tree>>), r.i)

ParseComparison(ts, i) == ParseComparators(ts, <<>>, ParseXor(ts, i))

RECURSIVE ParseInversion(_, _)
ParseInversion(ts, i) ==
    IF IsKeyword(ts, i, <<"n", "o", "t">>)
    THEN Unary("Not", ParseInversion(ts, i + 1))
    ELSE ParseComparison(ts, i)

\* The operands of an 'and' chain ('or' chain below), as one BoolOp node.
RECURSIVE ParseAndRest(_, _, _)
ParseAndRest(ts, values, r) ==
    IF r.k # "ok" THEN ParseError
    ELSE IF IsKeyword(ts, r.i, <<"a", "n", "d">>)
    THEN ParseAndRest(ts, Append(values, r.tree), ParseInversion(ts, r.i + 1))
    ELSE IF values = <<>> THEN r
    ELSE Parsed(BoolOp("And", Append(values, r.tree)), r.i)

ParseConjunction(ts, i) == ParseAndRest(ts, <<>>, ParseInversion(ts, i))

RECURSIVE ParseOrRest(_, _, _)
ParseOrRest(ts, values, r) ==
    IF r.k # "ok" THEN ParseError
    ELSE IF IsKeyword(ts, r.i, <<"o", "r">>)
    THEN ParseOrRest(ts, Append(values, r.tree), ParseConjunction(ts, r.i + 1))
    ELSE IF values = <<>> THEN r
    ELSE Parsed(BoolOp("Or", Append(values, r.tree)), r.i)

ParseDisjunction(ts, i) == ParseOrRest(ts, <<>>, ParseConjunction(ts, i))

\* ast.parse(expr, mode="eval"): an Expression node around the one
\* expression the whole text reads as; otherwise a SyntaxError.
WholeText(toks, r) ==
    IF r.k = "ok" /\ r.i = Len(toks) + 1
    THEN [k |-> "ok", tree |-> Expression(r.tree)]
    ELSE [k |-> "SyntaxError", tree |-> NoNode]

ParseTokens(lex) ==
    IF lex.k = "unmodelled" THEN [k |-> "unmodelled", tree |-> NoNode]
    ELSE IF lex.k = "err" THEN [k |-> "SyntaxError", tree |-> NoNode]
    ELSE WholeText(lex.toks, ParseDisjunction(lex.toks, 1))

ast_parse(expr) == ParseTokens(Tokenize(expr))

(***************************************************************************)
(* safe_eval(expr): parse, a SyntaxError re-raised as ValueError("Invalid  *)
(* syntax"), then _eval of the tree, whose exceptions pass through.        *)
(***************************************************************************)
\* _eval of the tree parsed, or what a SyntaxError of the parse becomes.
EvalParsed(parsed, onSyntaxError) ==
    IF parsed.k = "unmodelled" THEN Unmodelled
    ELSE IF parsed.k = "SyntaxError" THEN onSyntaxError
    ELSE _eval(parsed.tree)

\* safe_eval as it would be without its except clause: the SyntaxError of
\* the parse reaches the caller as it is.
safe_eval_Uncaught(expr) ==
    EvalParsed(ast_parse(expr), Raise("SyntaxError", <<"invalid syntax">>))

safe_eval(expr) ==
    EvalParsed(ast_parse(expr), Raise("ValueError", <<"Invalid syntax">>))

(***************************************************************************)
(* SpecEval: a tree is handed to _eval.  The trees are the expressions of  *)
(* depth two over a few literals of every kind, every binary and unary     *)
(* operator class used below, and the node kinds _eval rejects.            *)
(***************************************************************************)
BinaryOps == {"Add", "Sub", "Mult", "Div", "FloorDiv", "Mod", "Pow", "BitXor"}
UnaryOps == {"UAdd", "USub", "Not"}

LeafValues ==
    {PyInt(i) : i \in -1 .. MaxLit}
        \cup {PyFloat(0, 1), PyFloat(1, 2), PyBool(TRUE), PyStr}

Leaves ==
    {Constant(v) : v \in LeafValues}
        \cup {Name("foo"), Call(Name("foo"), <<Constant(PyInt(1))>>)}

Trees1 ==
    Leaves
        \cup {BinOp(l, o, r) : l \in Leaves, o \in BinaryOps, r \in Leaves}
        \cup {UnaryOp(o, x) : o \in UnaryOps, x \in Leaves}

Sides == {Constant(PyInt(0)), Constant(PyInt(2)), Constant(PyFloat(1, 2)), Name("foo")}

\* A tree of Trees1, or one with a tree of Trees1 under one more node.
IsTree(n) ==
    \E t \in Trees1 :
        \/ n = t
        \/ n = Expression(t)
        \/ \E o \in UnaryOps : n = UnaryOp(o, t)
        \/ \E o \in BinaryOps, s \in Sides : n = BinOp(t, o, s)
        \/ \E o \in BinaryOps, s \in Sides : n = BinOp(s, o, t)

\* The trees whose evaluation stays within the numbers represented.
EvalInput(t) == _eval(t).k # "unmodelled"

InitEval ==
    /\ IsTree(node)
    /\ EvalInput(node)
    /\ result = NoResult
    /\ text = <<>>
    /\ entry = <<>>
    /\ out = <<>>
    /\ shell = "none"

\* The caller's call of _eval(node).
CallEval ==
    /\ result.k = "none"
    /\ result' = _eval(node)
    /\ UNCHANGED <<node, text, entry, out, shell>>

NextEval == CallEval

SpecEval == InitEval /\ [][NextEval]_vars

(***************************************************************************)
(* SpecSafeEval: a text is handed to safe_eval.  The texts are every       *)
(* sequence of up to three lexemes, every expression of two or three       *)
(* one-digit operands with an optional leading minus, a call of every      *)
(* lexeme, and the examples of the documentation.                          *)
(***************************************************************************)
\* One-digit operands range over 0 .. MaxDigit.
MaxDigit == 3

DigitChars == <<"0", "1", "2", "3", "4", "5", "6", "7", "8", "9">>
D(i) == DigitChars[i + 1]

Operands == {<<D(i)>> : i \in 0 .. MaxDigit}
BinaryTokens ==
    {<<"+">>, <<"-">>, <<"*">>, <<"/">>, <<"/", "/">>, <<"%">>, <<"*", "*">>}
Signs == {<<>>, <<"-">>}

Lexemes ==
    Operands
        \cup {<<".">>, <<"+">>, <<"-">>, <<"*">>, <<"/">>, <<"%">>, <<"^">>,
              <<"(">>, <<")">>, <<"=">>, <<" ">>}
        \cup {<<"f", "o", "o">>, <<"T", "r", "u", "e">>, <<"N", "o", "n", "e">>, <<"n", "o", "t">>, <<"o", "r">>,
              <<"'", "s", "'">>, <<"j">>}

Examples ==
    {<<"2", "+", "3", "*", "4">>,
     <<"(", "1", "+", "2", ")", "/", "3">>,
     <<"-", "5", "*", "*", "2">>,
     <<"2", "*", "*", "1", "0">>,
     <<"1", "0", "%", "3">>,
     <<"1", "/", "0">>,
     <<"2", "+">>,
     <<"f", "o", "o", "(", "1", ")">>,
     <<"1", " ", "=", "=", " ", "2">>,
     <<"(", "1", "+", "2">>,
     <<"T", "r", "u", "e", "+", "1">>,
     <<"1", "+", "T", "r", "u", "e">>}

\* A text of the shapes above.
IsText(s) ==
    \/ s \in Examples
    \/ \E a \in Lexemes \cup {<<>>}, b \in Lexemes \cup {<<>>}, c \in Lexemes : s = a \o b \o c
    \/ s = <<>>
    \/ \E sg \in Signs, a \in Operands, o \in BinaryTokens, b \in Operands :
           s = sg \o a \o o \o b
    \/ \E sg \in Signs, a \in Operands, o1 \in BinaryTokens, b \in Operands,
          o2 \in BinaryTokens, c \in Operands :
           s = sg \o a \o o1 \o b \o o2 \o c
    \/ \E f \in Lexemes, x \in Lexemes : s = f \o <<"(">> \o x \o <<")">>

\* The texts whose reading and evaluation stay within what is represented.
SafeEvalInput(t) == safe_eval(t).k # "unmodelled"

InitSafeEval ==
    /\ IsText(text)
    /\ SafeEvalInput(text)
    /\ result = NoResult
    /\ node = NoNode
    /\ entry = <<>>
    /\ out = <<>>
    /\ shell = "none"

\* The caller's call of safe_eval(text).
CallSafeEval ==
    /\ result.k = "none"
    /\ result' = safe_eval(text)
    /\ UNCHANGED <<node, text, entry, out, shell>>

NextSafeEval == CallSafeEval

SpecSafeEval == InitSafeEval /\ [][NextSafeEval]_vars

(***************************************************************************)
(* main(): the shells.                                                     *)
(***************************************************************************)
\* The Entry widget holds at most MaxEntry characters when a key is pressed.
MaxEntry == 7
\* The line shell is followed until it has printed MaxOut lines.
MaxOut == 3

\* The keys of the keypad that are pressed (of its seventeen).
Keys == {"2", "0", "/", "^"}

ErrorText == <<"E", "r", "r", "o", "r">>
Banner == <<"Simple Calculator. Enter arithmetic expressions. Type 'q' or 'quit' to exit.">>
NoText == <<"?">>

\* str(n) for an int n.
RECURSIVE NatText(_)
NatText(n) == IF n < 10 THEN <<D(n)>> ELSE NatText(n \div 10) \o <<D(n % 10)>>
IntText(n) == IF n < 0 THEN <<"-">> \o NatText(-n) ELSE NatText(n)

\* The digits after the point of r/d (0 <= r < d, d a power of two).
RECURSIVE FractionDigits(_, _)
FractionDigits(r, d) ==
    IF r = 0 THEN <<>>
    ELSE <<D((10 * r) \div d)>> \o FractionDigits((10 * r) % d, d)

\* str(v): repr of a float that is not whole is its decimal expansion, which
\* is finite and short for the floats tracked.
Str(v) ==
    IF v.t = "int" THEN IntText(v.n)
    ELSE IF v.t = "bool" THEN (IF v.n = 1 THEN <<"T", "r", "u", "e">>
                               ELSE <<"F", "a", "l", "s", "e">>)
    ELSE IF v.t = "float" /\ v.d # 0
         THEN (IF v.n < 0 THEN <<"-">> ELSE <<>>)
                  \o NatText(Abs(v.n) \div v.d) \o <<".">>
                  \o (IF Abs(v.n) % v.d = 0 THEN <<"0">>
                      ELSE FractionDigits(Abs(v.n) % v.d, v.d))
    ELSE NoText

\* isinstance(res, float) and res.is_integer()
IsWholeFloat(v) == v.t = "float" /\ v.d = 1

\* format_result(res): a whole float as its int, anything else as str(res).
format_result(res) == IF IsWholeFloat(res) THEN IntText(res.n) ELSE Str(res)

\* s.replace('^', '**')
RECURSIVE ReplaceCaret(_)
ReplaceCaret(s) ==
    IF s = <<>> THEN <<>>
    ELSE (IF s[1] = "^" THEN <<"*", "*">> ELSE <<s[1]>>) \o ReplaceCaret(Tail(s))

\* s.strip()
RECURSIVE StripLeft(_)
StripLeft(s) == IF s # <<>> /\ s[1] = " " THEN StripLeft(Tail(s)) ELSE s
RECURSIVE StripRight(_)
StripRight(s) ==
    IF s # <<>> /\ s[Len(s)] = " " THEN StripRight(SubSeq(s, 1, Len(s) - 1)) ELSE s
Strip(s) == StripRight(StripLeft(s))

\* s.lower()
LowerOf ==
    ("A" :> "a") @@ ("B" :> "b") @@ ("C" :> "c") @@ ("D" :> "d") @@ ("E" :> "e")
        @@ ("F" :> "f") @@ ("G" :> "g") @@ ("H" :> "h") @@ ("I" :> "i") @@ ("J" :> "j")
        @@ ("K" :> "k") @@ ("L" :> "l") @@ ("M" :> "m") @@ ("N" :> "n") @@ ("O" :> "o")
        @@ ("P" :> "p") @@ ("Q" :> "q") @@ ("R" :> "r") @@ ("S" :> "s") @@ ("T" :> "t")
        @@ ("U" :> "u") @@ ("V" :> "v") @@ ("W" :> "w") @@ ("X" :> "x") @@ ("Y" :> "y")
        @@ ("Z" :> "z")
Lower(s) == [i \in 1 .. Len(s) |-> IF s[i] \in DOMAIN LowerOf THEN LowerOf[s[i]] ELSE s[i]]

QuitWords == {<<"q">>, <<"q", "u", "i", "t">>, <<"e", "x", "i", "t">>}

\* The outcome of a call as the shells keep it: without the history.
Summary(r) == [r EXCEPT !.tr = <<>>]

\* The text a shell shows for a value is represented.
Shown(r) == r.k = "raise" \/ (r.k = "ok" /\ format_result(r.v) # NoText)

\* Tk starts and main() runs the keypad, or it does not and main() prints
\* the banner and runs the line shell.
InitMain ==
    /\ shell \in {"gui", "cli"}
    /\ entry = <<>>
    /\ out = IF shell = "cli" THEN <<Banner>> ELSE <<>>
    /\ result = NoResult
    /\ node = NoNode
    /\ text = <<>>

\* insert as a keypad that starts afresh after a failure would have it: a key
\* pressed on the text "Error" replaces it.
insert_ReplacesError(char) ==
    /\ shell = "gui"
    /\ Len(entry) < MaxEntry
    /\ entry' = IF entry = ErrorText THEN <<char>> ELSE Append(entry, char)
    /\ result' = NoResult
    /\ UNCHANGED <<node, text, out, shell>>

\* insert(char): a key of the keypad appends its character.
insert(char) ==
    /\ shell = "gui"
    /\ Len(entry) < MaxEntry
    /\ entry' = Append(entry, char)
    /\ result' = NoResult
    /\ UNCHANGED <<node, text, out, shell>>

\* clear(): the C key.
clear ==
    /\ shell = "gui"
    /\ entry' = <<>>
    /\ result' = NoResult
    /\ UNCHANGED <<node, text, out, shell>>

\* backspace(): the last character goes, if there is one.
backspace ==
    /\ shell = "gui"
    /\ entry' = IF entry # <<>> THEN SubSeq(entry, 1, Len(entry) - 1) ELSE entry
    /\ result' = NoResult
    /\ UNCHANGED <<node, text, out, shell>>

\* evaluate(): the = key and Return.  The text becomes the formatted result
\* res of safe_eval or, on every Exception of safe_eval, "Error".
Evaluated(res) ==
    /\ Shown(res)
    /\ entry' = IF res.k = "ok" THEN format_result(res.v) ELSE ErrorText
    /\ result' = Summary(res)

evaluate ==
    /\ shell = "gui"
    /\ Evaluated(safe_eval(ReplaceCaret(entry)))
    /\ UNCHANGED <<node, text, out, shell>>

\* The lines typed at the prompt.
CliLines ==
    {<<>>,
     <<" ">>,
     <<"q">>,
     <<" ", "Q", " ">>,
     <<"q", "u", "i", "t">>,
     <<"Q", "U", "I", "T">>,
     <<"E", "x", "i", "t">>,
     <<"e", "x", "i", "t", " ", "n", "o", "w">>,
     <<"2", "+", "3", "*", "4">>,
     <<" ", "1", "/", "0", " ">>,
     <<"2", " ", "%", " ", "0">>,
     <<"f", "o", "o", "(", "1", ")">>,
     <<"2", "+">>,
     <<"(", "1", "+", "2", ")", "/", "3">>,
     <<"1", "/", "2">>,
     <<"T", "r", "u", "e">>,
     <<"1", " ", "=", "=", " ", "2">>}

\* What print shows for a result: a whole float as its int.
PrintedResult(v) == IF IsWholeFloat(v) THEN IntText(v.n) ELSE Str(v)

\* Printed as a loop that catches ValueError alone would have it: another
\* exception ends the loop with its traceback.
Printed_ValueErrorOnly(res) ==
    /\ Shown(res)
    /\ out' = Append(out, IF res.k = "ok" THEN PrintedResult(res.v)
                          ELSE IF res.exc = "ValueError" THEN <<"Error:", " ">> \o res.msg
                          ELSE <<"Traceback (most recent call last):">>)
    /\ shell' = IF res.k = "raise" /\ res.exc # "ValueError" THEN "exit" ELSE shell
    /\ result' = Summary(res)

\* The line printed for the outcome res of safe_eval: the result, or
\* "Error:" and the exception, whatever Exception it is; the loop goes on.
Printed(res) ==
    /\ Shown(res)
    /\ out' = Append(out, IF res.k = "ok" THEN PrintedResult(res.v)
                          ELSE <<"Error:", " ">> \o res.msg)
    /\ shell' = shell
    /\ result' = Summary(res)

\* One turn of the loop of the line shell on the line read: an empty line
\* is skipped, q / quit / exit leave the loop, anything else is evaluated
\* and printed.
ReadLine(line) ==
    /\ shell = "cli"
    /\ Len(out) < MaxOut
    /\ IF Strip(line) = <<>>
       THEN result' = NoResult /\ UNCHANGED <<out, shell>>
       ELSE IF Lower(Strip(line)) \in QuitWords
       THEN shell' = "exit" /\ result' = NoResult /\ UNCHANGED out
       ELSE Printed(safe_eval(Strip(line)))
    /\ UNCHANGED <<node, text, entry>>

\* input() raises EOFError: an empty line is printed and the loop ends.
EndOfInput ==
    /\ shell = "cli"
    /\ Len(out) < MaxOut
    /\ out' = Append(out, <<>>)
    /\ shell' = "exit"
    /\ result' = NoResult
    /\ UNCHANGED <<node, text, entry>>

\* input() raises KeyboardInterrupt: the same.
Interrupt ==
    /\ shell = "cli"
    /\ Len(out) < MaxOut
    /\ out' = Append(out, <<>>)
    /\ shell' = "exit"
    /\ result' = NoResult
    /\ UNCHANGED <<node, text, entry>>

NextMain ==
    \/ \E char \in Keys : insert(char)
    \/ clear
    \/ backspace
    \/ evaluate
    \/ \E line \in CliLines : ReadLine(line)
    \/ EndOfInput
    \/ Interrupt

SpecMain == InitMain /\ [][NextMain]_vars

(***************************************************************************)
(* Properties of safe_eval, checked under SpecSafeEval.                    *)
(***************************************************************************)
\* The functions that divide.
Dividers == {"op.truediv", "op.floordiv", "op.mod"}

\* The evaluation behind r ended in a division, floor division or modulo
\* applied to two values of which the right one is zero.
EndsInDivisionByZero(r) ==
    /\ r.tr # <<>>
    /\ LET e == r.tr[Len(r.tr)] IN
       /\ Len(e) = 4
       /\ e[2] \in Dividers
       /\ Tracked(e[4])
       /\ e[4].n = 0

\* C1 as stated: an evaluation that reaches a division, floor division or
\* modulo by zero fails with the error kind _eval raises for unsupported
\* nodes and operators (ValueError), never with another kind of fault.
C1_DivisionByZeroIsEvaluationError ==
    (result.k # "none" /\ EndsInDivisionByZero(result))
        => (result.k = "raise" /\ result.exc = "ValueError")

\* The outcome of a text the parse step rejects: the evaluator not entered.
InvalidSyntax == Raise("ValueError", <<"Invalid syntax">>)

LogicalKeywords == {<<"n", "o", "t">>, <<"a", "n", "d">>, <<"o", "r">>}
LiteralKeywords ==
    {<<"T", "r", "u", "e">>, <<"F", "a", "l", "s", "e">>, <<"N", "o", "n", "e">>}

\* The tokens ts hold an identifier, a comparison or logical operator, or an
\* opening parenthesis right after the end of an operand (call syntax).
HasDisallowedToken(ts) ==
    \E i \in 1 .. Len(ts) :
        \/ ts[i].type = "NAME"
        \/ ts[i].type = "KEYWORD" /\ ts[i].str \in LogicalKeywords
        \/ ts[i].type = "OP" /\ ts[i].str = <<"=", "=">>
        \/ /\ i > 1
           /\ ts[i].type = "OP" /\ ts[i].str = <<"(">>
           /\ \/ ts[i - 1].type \in {"NAME", "NUMBER", "STRING"}
              \/ ts[i - 1].type = "KEYWORD" /\ ts[i - 1].str \in LiteralKeywords
              \/ ts[i - 1].type = "OP" /\ ts[i - 1].str = <<")">>

ContainsDisallowed(s) == Tokenize(s).k = "ok" /\ HasDisallowedToken(Tokenize(s).toks)

\* The number of tokens of ts that are the operator str.
CountOp(ts, str) == Cardinality({i \in 1 .. Len(ts) : ts[i].type = "OP" /\ ts[i].str = str})

\* The text is unbalanced in its parentheses, or ends in an arithmetic
\* operator that still waits for its right operand.
IncompleteOrUnbalanced(s) ==
    LET lex == Tokenize(s) IN
    /\ lex.k = "ok"
    /\ lex.toks # <<>>
    /\ \/ CountOp(lex.toks, <<"(">>) # CountOp(lex.toks, <<")">>)
       \/ LET t == lex.toks[Len(lex.toks)] IN
          t.type = "OP" /\ t.str \in BinaryTokens

HasOtherLiteral(ts) ==
    \E i \in 1 .. Len(ts) :
        \/ ts[i].type = "STRING"
        \/ ts[i].type = "KEYWORD" /\ ts[i].str \in LiteralKeywords
        \/ ts[i].type = "NUMBER" /\ ts[i].val = PyComplex
        \/ ts[i].type = "OP" /\ ts[i].str = <<".", ".", ".">>

\* C4 as stated: a text that holds a literal of another kind than integer
\* and floating point is rejected with an error, wherever the literal is.
C4_OtherLiteralRejected ==
    (result.k # "none" /\ Tokenize(text).k = "ok" /\ HasOtherLiteral(Tokenize(text).toks))
        => result.k = "raise"

\* C5: parsing and evaluation follow the standard precedence and
\* associativity on one-digit operands: a+b*c is a+(b*c), -a**b is -(a**b),
\* a**b**c is a**(b**c); "2+3*4" gives 14 and "-5**2" gives -25.
C5_Precedence ==
    result.k # "none" =>
        /\ text = <<"2", "+", "3", "*", "4">> => result.v = PyInt(14)
        /\ text = <<"-", "5", "*", "*", "2">> => result.v = PyInt(-25)
        /\ \A a, b, c \in 0 .. MaxDigit :
               /\ text = <<D(a), "+", D(b), "*", D(c)>> =>
                      /\ result = safe_eval(<<D(a), "+", "(", D(b), "*", D(c), ")">>)
                      /\ result.k = "ok"
                      /\ result.v = PyInt(a + b * c)
               /\ text = <<"-", D(a), "*", "*", D(b)>> =>
                      /\ result.k = "ok"
                      /\ result.v = safe_eval(<<"-", "(", D(a), "*", "*", D(b), ")">>).v
                      /\ result.v = PyInt(-IPow(a, b))
               /\ text = <<D(a), "*", "*", D(b), "*", "*", D(c)>> =>
                      /\ result.k = "ok"
                      /\ result.v
                             = safe_eval(<<D(a), "*", "*", "(", D(b), "*", "*", D(c), ")">>).v
                      /\ result.v = PyInt(IPow(a, IPow(b, c)))

\* C5's case: "-3**2" has been evaluated, to -9.
C5_Witness ==
    /\ text = <<"-", "3", "*", "*", "2">>
    /\ result.k = "ok"
    /\ result.v = PyInt(-9)

(***************************************************************************)
(* Properties of _eval, checked under SpecEval.                            *)
(***************************************************************************)
\* The functions the table holds.
TableFunctions == {_OPERATORS[o] : o \in DOMAIN _OPERATORS}

\* Only functions of the table were applied in the history of r.
OnlyTableFunctions(r) ==
    \A i \in 1 .. Len(r.tr) : r.tr[i][1] = "apply" => r.tr[i][2] \in TableFunctions

\* n holds, at some depth, a node whose kind is not in kinds, or a unary or
\* binary node whose operator is no key of _OPERATORS.
RECURSIVE Foreign(_, _)
Foreign(n, kinds) ==
    \/ n.kind \notin kinds
    \/ /\ n.kind = "BinOp"
       /\ \/ n.op \notin DOMAIN _OPERATORS
          \/ Foreign(n.left, kinds)
          \/ Foreign(n.right, kinds)
    \/ /\ n.kind = "UnaryOp"
       /\ (n.op \notin DOMAIN _OPERATORS \/ Foreign(n.operand, kinds))
    \/ /\ n.kind = "Expression"
       /\ Foreign(n.body, kinds)

\* C3 as stated: a tree holding, at any depth, a node kind other than
\* literal, unary operation or binary operation, or an operator that is no
\* key of the operator table, never evaluates to a number, and only table
\* functions are ever applied.
C3_ForeignNodeFails ==
    result.k # "none" =>
        /\ Foreign(node, {"Constant", "UnaryOp", "BinOp"}) => result.k = "raise"
        /\ OnlyTableFunctions(result)

\* C3 as amended: the same, with the Expression wrapper (which _eval
\* replaces by its body) among the node kinds that are evaluated.
C3_ForeignNodeFailsAmended ==
    result.k # "none" =>
        /\ Foreign(node, {"Expression", "Constant", "UnaryOp", "BinOp"})
               => result.k = "raise"
        /\ OnlyTableFunctions(result)

\* C3's case: evaluated, a supported operator over an operand that holds an
\* unsupported operator one level down, both of whose operands are numbers.
C3_Witness ==
    /\ result.k = "raise"
    /\ node.kind = "BinOp"
    /\ node.op = "Add"
    /\ node.left.kind = "BinOp"
    /\ node.left.op = "BitXor"
    /\ node.left.left.kind = "Constant"
    /\ node.left.right.kind = "Constant"
    /\ result.msg = <<"Unsupported binary operator: ", "BitXor">>

\* The root is a binary node of a table operator whose operands both
\* evaluate to values of type int.
IntOperands ==
    /\ node.kind = "BinOp"
    /\ node.op \in DOMAIN _OPERATORS
    /\ _eval(node.left).k = "ok"
    /\ _eval(node.left).v.t = "int"
    /\ _eval(node.right).k = "ok"
    /\ _eval(node.right).v.t = "int"

\* C6 as stated: on integer operands, when the operation succeeds, true
\* division yields a float and every other binary operator an int.
C6_ResultKind ==
    (result.k = "ok" /\ IntOperands) =>
        result.v.t = (IF node.op = "Div" THEN "float" ELSE "int")

\* C6 as amended: on integer operands, when the operation succeeds, true
\* division yields a float, ** with a negative exponent yields a float, and
\* every other case (+, -, *, //, %, ** with an exponent >= 0) an int.
C6_ResultKindAmended ==
    (result.k = "ok" /\ IntOperands) =>
        result.v.t = (IF node.op = "Div" THEN "float"
                      ELSE IF node.op = "Pow" /\ _eval(node.right).v.n < 0 THEN "float"
                      ELSE "int")

\* C6's case: an integer raised to a negative integer power has returned.
C6_Witness ==
    /\ result.k = "ok"
    /\ IntOperands
    /\ node.op = "Pow"
    /\ _eval(node.right).v.n < 0
    /\ result.v.t = "float"

\* C9: at a binary node the left operand is evaluated to its end before the
\* right one is entered, and both before the operator is looked up: a
\* failing left operand is the outcome and the right operand is never
\* entered; a failing right operand is the outcome after the left one
\* returned; an operator absent from the table is reported when, and only
\* when, both operands returned, and no function is applied then.
C9_LeftBeforeRight ==
    (result.k # "none" /\ node.kind = "BinOp") =>
        LET left == _eval(node.left)
            right == _eval(node.right)
            absent == Raise("ValueError", <<"Unsupported binary operator: ", node.op>>)
        IN  /\ left.k = "raise" => result = After(<<Enter(node)>>, left)
            /\ (left.k = "ok" /\ right.k = "raise")
                   => result = After(<<Enter(node)>> \o left.tr, right)
            /\ (left.k = "ok" /\ right.k = "ok" /\ node.op \notin DOMAIN _OPERATORS)
                   => result = After(<<Enter(node)>> \o left.tr \o right.tr, absent)
            /\ (left.k = "ok" /\ right.k = "ok" /\ node.op \in DOMAIN _OPERATORS)
                   => /\ Len(result.tr) = 2 + Len(left.tr) + Len(right.tr)
                      /\ result.tr[Len(result.tr)]
                             = Apply2(_OPERATORS[node.op], left.v, right.v)

\* C9's case: both operands of an unsupported operator fail, each its own
\* way, and the outcome is the left operand's failure.
C9_Witness ==
    /\ result.k = "raise"
    /\ node.kind = "BinOp"
    /\ node.op \notin DOMAIN _OPERATORS
    /\ _eval(node.left).k = "raise"
    /\ _eval(node.right).k = "raise"
    /\ _eval(node.left).msg # _eval(node.right).msg
    /\ result.msg = _eval(node.left).msg

(***************************************************************************)
(* Properties of the shells, checked under SpecMain.                       *)
(***************************************************************************)
\* C7: in either shell, submitting an input that is empty after trimming
\* blanks is a no-op: safe_eval is not called and neither the text of the
\* entry nor the printed output changes.
C7_EmptyInputIsNoOp ==
    [][((Strip(entry) = <<>> /\ evaluate)
            \/ \E line \in CliLines : Strip(line) = <<>> /\ ReadLine(line))
          => (entry' = entry /\ out' = out /\ shell' = shell /\ result'.k = "none")]_vars

\* C8: no failure of safe_eval ends a shell.  Whatever the exception, the
\* keypad's text becomes exactly "Error" and the keypad goes on, and the
\* line shell prints one line that begins with "Error:" and goes on; the
\* loop of the line shell ends only on q / quit / exit in any case, on the
\* end of the input or on an interrupt.
C8_FailureKeepsShellRunning ==
    [][/\ (shell = "gui" /\ result'.k = "raise")
              => (entry' = ErrorText /\ shell' = "gui" /\ out' = out)
       /\ (shell = "cli" /\ result'.k = "raise")
              => /\ shell' = "cli"
                 /\ Len(out') = Len(out) + 1
                 /\ SubSeq(out', 1, Len(out)) = out
                 /\ out'[Len(out')][1] = "Error:"
       /\ (shell = "cli" /\ shell' # "cli")
              => \/ EndOfInput
                 \/ Interrupt
                 \/ \E line \in CliLines :
                        Lower(Strip(line)) \in QuitWords /\ ReadLine(line)]_vars

\* C8's case: the line shell has printed an "Error:" line for a failure,
\* read on, and printed another for a division by zero.
C8_Witness ==
    /\ shell = "cli"
    /\ Len(out) = 3
    /\ out[2] # <<>> /\ out[2][1] = "Error:"
    /\ out[3] # <<>> /\ out[3][1] = "Error:"
    /\ result.k = "raise"
    /\ result.exc = "ZeroDivisionError"

HasErrorPrefix(s) == Len(s) >= Len(ErrorText) /\ SubSeq(s, 1, Len(ErrorText)) = ErrorText

\* C10: the text "Error" of a failure stays in the entry as input.  While
\* the text begins with "Error", a key press or an equals press that is
\* neither clear nor backspace leaves it beginning with "Error", and an
\* equals press fails and leaves it exactly "Error".
C10_ErrorStaysAsInput ==
    [][(shell = "gui" /\ HasErrorPrefix(entry) /\ ~clear /\ ~backspace)
          => /\ HasErrorPrefix(entry')
             /\ result'.k # "none" => (result'.k = "raise" /\ entry' = ErrorText)]_vars

\* C10's case: equals was pressed on a text whose first token is a name,
\* which only the text of an earlier failure puts there, and the text is
\* "Error" again.
C10_Witness ==
    /\ shell = "gui"
    /\ entry = ErrorText
    /\ result.k = "raise"
    /\ result.msg = <<"Unsupported expression: ", "Name">>

====
